---- MODULE Spec2Model ----
(***************************************************************************)
(* Model of @verbadev/react: the VerbaProvider component (src/context.ts)  *)
(* and the useVerba hook.  The provider owns one client of the external    *)
(* translation library per run of its effect, waits for the client's       *)
(* ready() promise and mirrors the client's locale into React state.       *)
(*                                                                         *)
(* React state (useState) is modelled by its committed value.  A change    *)
(* of the effect's dependency list is one step: React runs the cleanup of  *)
(* the previous effect run and then the effect body.  The external client  *)
(* (new Verba, ready, getLocale, setLocale, getLocales, getDefaultLocale,  *)
(* t) is the environment: its answers are chosen nondeterministically.     *)
(***************************************************************************)
EXTENDS Integers, Sequences, FiniteSets, TLC

\* Number of clients the provider may construct (runs of the effect).
MaxClients == 2

\* verbaRef.current === null
NoClient == 0

\* The locale prop left out (undefined).
NoLocale == "undefined"

\* getDefaultLocale() === null
NullLocale == "null"

Locales == {"en", "fr"}

\* The dependency list of the effect: projectId and locale stand for the
\* five props, which are compared by identity.
Configs ==
    { [projectId |-> "p1", locale |-> NoLocale],
      [projectId |-> "p1", locale |-> "fr"],
      [projectId |-> "p2", locale |-> NoLocale] }

\* Arguments of t.
Keys == {"greeting"}
Undef == [tag |-> "undef", val |-> ""]
DefaultValues ==
    { Undef,
      [tag |-> "str", val |-> "Hello"],
      [tag |-> "str", val |-> ""],
      [tag |-> "obj", val |-> "name"] }
ParamValues == {"undef", "name"}

\* What the client's t may answer.
ClientStrings == {"Bonjour", "greeting"}

UsageError == "useVerba must be used within a <VerbaProvider>"

VARIABLES
    phase,          \* "rendered": first render done, effect not yet run;
                    \* "mounted": effect has run; "unmounted"
    props,          \* the configuration of the last run of the effect
    isReady,        \* useState(false)
    currentLocale,  \* useState(locale ?? 'en')
    verbaRef,       \* useRef<Verba | null>(null): a client index or NoClient
    clients,        \* every client constructed so far, in order
    value,          \* the memoised context value given to VerbaContext.Provider
    last            \* the last operation: its arguments, result and client calls

vars == <<phase, props, isReady, currentLocale, verbaRef, clients, value, last>>

ClientIds == 1..Len(clients)

----------------------------------------------------------------------------
\* The external client.

\* What the project of a client holds once its data has been fetched.
ProjectLocales(projectId) ==
    IF projectId = "p1" THEN <<"en", "fr">> ELSE <<"fr">>

ProjectDefault(projectId) ==
    IF projectId = "p1" THEN "en" ELSE "fr"

\* new Verba(config): the locale is the override when one is given and is
\* detected otherwise.
NewClient(cfg, detected) ==
    [ config |-> cfg,
      locale |-> IF cfg.locale = NoLocale THEN detected ELSE cfg.locale,
      status |-> "pending",     \* of the ready() promise
      cont   |-> "none",        \* the continuation: none, applied, skipped
      torn   |-> "live",        \* live, superseded, unmounted
      flips  |-> 0 ]            \* times its continuation turned isReady true

GetLocales(cl, c) ==
    IF cl[c].status = "resolved"
    THEN ProjectLocales(cl[c].config.projectId) ELSE <<>>

GetDefaultLocale(cl, c) ==
    IF cl[c].status = "resolved"
    THEN ProjectDefault(cl[c].config.projectId) ELSE NullLocale

----------------------------------------------------------------------------
\* The provider.

\* useState(locale ?? 'en')
InitialLocale(locale) == IF locale = NoLocale THEN "en" ELSE locale

\* if (verbaRef.current === verba) in the continuation of ready()
StillCurrentInverted(ref, verba) == ref # verba
StillCurrentAlways(ref, verba) == TRUE
StillCurrent(ref, verba) == ref = verba

\* The cleanup: if (verbaRef.current === verba) verbaRef.current = null
CleanupRefKeeps(ref, verba) == ref
CleanupRef(ref, verba) == IF ref = verba THEN NoClient ELSE ref

\* if (verbaRef.current) / if (!verbaRef.current)
HasInstance(ref) == ref # NoClient

\* typeof defaultValueOrParams === 'string' ? defaultValueOrParams : key
TFallbackKey(key, dv) == key
TFallback(key, dv) == IF dv.tag = "str" THEN dv.val ELSE key

\* The context value with the client's lists never read.
ContextValueWithoutLists(ready, loc, ref, cl) ==
    [ present       |-> TRUE,
      locale        |-> loc,
      isReady       |-> ready,
      locales       |-> <<>>,
      defaultLocale |-> NullLocale ]

\* The object built inside useMemo.
ContextValue(ready, loc, ref, cl) ==
    [ present       |-> TRUE,
      locale        |-> loc,
      isReady       |-> ready,
      locales       |-> IF HasInstance(ref) THEN GetLocales(cl, ref) ELSE <<>>,
      defaultLocale |-> IF HasInstance(ref) THEN GetDefaultLocale(cl, ref)
                        ELSE NullLocale ]

\* createContext(null)
NullContext ==
    [ present |-> FALSE, locale |-> "", isReady |-> FALSE, locales |-> <<>>,
      defaultLocale |-> NullLocale ]

\* useMemo(..., [t, currentLocale, setLocale, isReady]); t itself is
\* re-created when currentLocale or isReady changes, setLocale never.
Memo(old, oldDeps, newDeps, fresh) == IF newDeps = oldDeps THEN old ELSE fresh

Republish ==
    value' = Memo(value, <<currentLocale, isReady>>, <<currentLocale', isReady'>>,
                  ContextValue(isReady', currentLocale', verbaRef', clients'))

NoOp ==
    [ op |-> "none", client |-> NoClient, key |-> "", dv |-> Undef,
      params |-> "undef", arg |-> "", ret |-> "", err |-> "",
      ctx |-> NullContext, calls |-> <<>> ]

Call(c, m, a) == [c |-> c, m |-> m, a |-> a]

Init ==
    /\ phase = "rendered"
    /\ props \in Configs
    /\ isReady = FALSE
    /\ currentLocale = InitialLocale(props.locale)
    /\ verbaRef = NoClient
    /\ clients = <<>>
    /\ value = ContextValue(isReady, currentLocale, verbaRef, clients)
    /\ last = NoOp

\* The cleanup returned by the run of the effect that built client `verba`.
Torn(cl, verba, how) == [cl EXCEPT ![verba].torn = how]

\* The effect body with the ref and clients the cleanup (if any) left.
\* setIsReady(false)
EffectKeepsReady == isReady
EffectResetsReady == FALSE

EffectBodyResetsLocale(cfg, cl) ==
    \E detected \in Locales :
        /\ isReady' = EffectResetsReady
        /\ clients' = Append(cl, NewClient(cfg, detected))
        /\ verbaRef' = Len(cl) + 1
        /\ props' = cfg
        /\ currentLocale' = (IF cfg.locale = NoLocale THEN "en" ELSE cfg.locale)
        /\ phase' = "mounted"
        /\ last' = [NoOp EXCEPT !.op = "effect", !.client = Len(cl) + 1]
        /\ value' = [present |-> TRUE, locale |-> currentLocale', isReady |-> isReady',
                     locales |-> <<>>, defaultLocale |-> NullLocale]

EffectBody(cfg, cl) ==
    \E detected \in Locales :
        /\ isReady' = EffectResetsReady
        /\ clients' = Append(cl, NewClient(cfg, detected))
        /\ verbaRef' = Len(cl) + 1
        /\ props' = cfg
        /\ currentLocale' = currentLocale
        /\ phase' = "mounted"
        /\ last' = [NoOp EXCEPT !.op = "effect", !.client = Len(cl) + 1]
        /\ Republish

\* First run of the effect, after the first render.
MountEffect ==
    /\ phase = "rendered"
    /\ Len(clients) < MaxClients
    /\ EffectBody(props, clients)

\* A prop in the dependency list changed: cleanup of the previous run, then
\* the body.  The body overwrites the ref the cleanup left.
ConfigChange(cfg) ==
    /\ phase = "mounted"
    /\ cfg # props
    /\ Len(clients) < MaxClients
    /\ EffectBody(cfg, Torn(clients, Len(clients), "superseded"))

\* The provider is unmounted: only the cleanup runs.
Unmount ==
    /\ phase = "mounted"
    /\ phase' = "unmounted"
    /\ verbaRef' = CleanupRef(verbaRef, Len(clients))
    /\ clients' = Torn(clients, Len(clients), "unmounted")
    /\ last' = [NoOp EXCEPT !.op = "unmount", !.client = Len(clients)]
    /\ UNCHANGED <<props, isReady, currentLocale, value>>

\* verba.ready() resolves and the continuation given to then() runs.
ReadyResolve(c) ==
    /\ clients[c].status = "pending"
    /\ IF StillCurrent(verbaRef, c)
       THEN /\ currentLocale' = clients[c].locale
            /\ isReady' = TRUE
            /\ clients' = [clients EXCEPT
                             ![c].status = "resolved",
                             ![c].cont = "applied",
                             ![c].flips = @ + (IF isReady THEN 0 ELSE 1)]
            /\ last' = [NoOp EXCEPT !.op = "ready", !.client = c,
                          !.calls = <<Call(c, "getLocale", "")>>]
       ELSE /\ UNCHANGED <<currentLocale, isReady>>
            /\ clients' = [clients EXCEPT ![c].status = "resolved",
                                          ![c].cont = "skipped"]
            /\ last' = [NoOp EXCEPT !.op = "ready", !.client = c]
    /\ UNCHANGED <<phase, props, verbaRef>>
    /\ Republish

\* verba.ready() rejects: then() was given no rejection handler, so the
\* continuation does not run and the derived promise rejects unhandled.
ReadyRejectRunsContinuation(c) ==
    /\ clients[c].status = "pending"
    /\ clients' = [clients EXCEPT ![c].status = "rejected", ![c].cont = "applied"]
    /\ IF StillCurrent(verbaRef, c)
       THEN currentLocale' = clients[c].locale /\ isReady' = TRUE
       ELSE UNCHANGED <<currentLocale, isReady>>
    /\ last' = [NoOp EXCEPT !.op = "reject", !.client = c]
    /\ UNCHANGED <<phase, props, verbaRef>>
    /\ Republish

ReadyReject(c) ==
    /\ clients[c].status = "pending"
    /\ clients' = [clients EXCEPT ![c].status = "rejected"]
    /\ last' = [NoOp EXCEPT !.op = "reject", !.client = c,
                            !.err = "unhandledrejection"]
    /\ UNCHANGED <<phase, props, isReady, currentLocale, verbaRef, value>>

\* setLocale(newLocale), also through a reference kept after unmount.
SetLocaleNoDelegate(newLocale) ==
    /\ IF HasInstance(verbaRef)
       THEN /\ currentLocale' = newLocale
            /\ last' = [NoOp EXCEPT !.op = "setLocale", !.arg = newLocale,
                          !.client = verbaRef]
       ELSE /\ UNCHANGED currentLocale
            /\ last' = [NoOp EXCEPT !.op = "setLocale", !.arg = newLocale]
    /\ UNCHANGED <<phase, props, isReady, verbaRef, clients>>
    /\ Republish

SetLocaleNoMirror(newLocale) ==
    /\ IF HasInstance(verbaRef)
       THEN /\ clients' = [clients EXCEPT ![verbaRef].locale = newLocale]
            /\ last' = [NoOp EXCEPT !.op = "setLocale", !.arg = newLocale,
                          !.client = verbaRef,
                          !.calls = <<Call(verbaRef, "setLocale", newLocale)>>]
       ELSE /\ UNCHANGED clients
            /\ last' = [NoOp EXCEPT !.op = "setLocale", !.arg = newLocale]
    /\ UNCHANGED <<phase, props, isReady, currentLocale, verbaRef, value>>

SetLocale(newLocale) ==
    /\ IF HasInstance(verbaRef)
       THEN /\ clients' = [clients EXCEPT ![verbaRef].locale = newLocale]
            /\ currentLocale' = newLocale
            /\ last' = [NoOp EXCEPT !.op = "setLocale", !.arg = newLocale,
                          !.client = verbaRef,
                          !.calls = <<Call(verbaRef, "setLocale", newLocale)>>]
       ELSE /\ UNCHANGED <<clients, currentLocale>>
            /\ last' = [NoOp EXCEPT !.op = "setLocale", !.arg = newLocale]
    /\ UNCHANGED <<phase, props, isReady, verbaRef>>
    /\ Republish

\* t(key, defaultValueOrParams, params)
TPrefersDefault(key, dv, params) ==
    /\ IF HasInstance(verbaRef)
       THEN \E answer \in ClientStrings :
              last' = [NoOp EXCEPT !.op = "t", !.key = key, !.dv = dv,
                         !.params = params, !.client = verbaRef,
                         !.ret = IF dv.tag = "str" THEN dv.val ELSE answer,
                         !.arg = answer,
                         !.calls = <<Call(verbaRef, "t", <<key, dv, params>>)>>]
       ELSE last' = [NoOp EXCEPT !.op = "t", !.key = key, !.dv = dv,
                       !.params = params, !.ret = TFallback(key, dv)]
    /\ UNCHANGED <<phase, props, isReady, currentLocale, verbaRef, clients, value>>

T(key, dv, params) ==
    /\ IF HasInstance(verbaRef)
       THEN \E answer \in ClientStrings :
              last' = [NoOp EXCEPT !.op = "t", !.key = key, !.dv = dv,
                         !.params = params, !.client = verbaRef,
                         !.ret = answer, !.arg = answer,
                         !.calls = <<Call(verbaRef, "t", <<key, dv, params>>)>>]
       ELSE last' = [NoOp EXCEPT !.op = "t", !.key = key, !.dv = dv,
                       !.params = params, !.ret = TFallback(key, dv)]
    /\ UNCHANGED <<phase, props, isReady, currentLocale, verbaRef, clients, value>>

\* useVerba() in a component rendered inside the provider, or outside of any.
UseContext(inside) == IF inside THEN value ELSE NullContext

UseVerbaNeverThrows(inside) ==
    /\ inside => phase # "unmounted"
    /\ last' = [NoOp EXCEPT !.op = "useVerba", !.arg = IF inside THEN "in" ELSE "out",
                            !.ctx = UseContext(inside)]
    /\ UNCHANGED <<phase, props, isReady, currentLocale, verbaRef, clients, value>>

UseVerba(inside) ==
    /\ inside => phase # "unmounted"
    /\ LET context == UseContext(inside) IN
         last' = IF ~context.present
                 THEN [NoOp EXCEPT !.op = "useVerba", !.arg = IF inside THEN "in" ELSE "out",
                                   !.err = UsageError]
                 ELSE [NoOp EXCEPT !.op = "useVerba", !.arg = IF inside THEN "in" ELSE "out",
                                   !.ctx = context]
    /\ UNCHANGED <<phase, props, isReady, currentLocale, verbaRef, clients, value>>

Next ==
    \/ MountEffect
    \/ \E cfg \in Configs : ConfigChange(cfg)
    \/ Unmount
    \/ \E c \in ClientIds : ReadyResolve(c)
    \/ \E c \in ClientIds : ReadyReject(c)
    \/ \E x \in Locales : SetLocale(x)
    \/ \E key \in Keys, dv \in DefaultValues, params \in ParamValues : T(key, dv, params)
    \/ \E inside \in BOOLEAN : UseVerba(inside)

Spec == Init /\ [][Next]_vars

----------------------------------------------------------------------------
\* Claims.

Resolves(c) == clients[c].status = "pending" /\ clients'[c].status = "resolved"

Rejects(c) == clients[c].status = "pending" /\ clients'[c].status = "rejected"

\* C1: the readiness resolution of a client whose configuration has been
\* superseded changes neither isReady nor currentLocale.
C1_StaleResolutionChangesNothing ==
    [][\A c \in ClientIds :
          (clients[c].torn = "superseded" /\ Resolves(c))
              => (isReady' = isReady /\ currentLocale' = currentLocale)]_vars

\* C1 witness: a superseded client has just resolved while the provider was
\* not ready and showed another locale than that client's.
C1_Witness ==
    /\ last.op = "ready"
    /\ clients[last.client].torn = "superseded"
    /\ clients[last.client].status = "resolved"
    /\ clients[last.client].locale # currentLocale
    /\ ~isReady

\* C2: after a change A -> B, once both clients have resolved, in either
\* order, the shared state is ready and shows B's locale.
C2_FinalStateIsCurrentClients ==
    \A a, b \in ClientIds :
        (/\ a < b
         /\ b = verbaRef
         /\ clients[a].status = "resolved"
         /\ clients[b].status = "resolved")
            => (/\ isReady
                /\ currentLocale = clients[b].locale
                /\ value.isReady
                /\ value.locale = clients[b].locale)

\* C2 witness: B resolved first, A (with another locale) has just resolved.
C2_Witness ==
    /\ last.op = "ready"
    /\ HasInstance(verbaRef)
    /\ last.client < verbaRef
    /\ clients[verbaRef].status = "resolved"
    /\ clients[last.client].status = "resolved"
    /\ clients[last.client].locale # clients[verbaRef].locale

\* C3: isReady turns from false to true at most once per configuration
\* identity, and only by the client of the identity that is current.
C3_ReadyFlipsOncePerIdentity ==
    /\ [](\A c \in ClientIds : clients[c].flips <= 1)
    /\ [][(~isReady /\ isReady')
            => (/\ HasInstance(verbaRef)
                /\ verbaRef' = verbaRef
                /\ clients[verbaRef].torn = "live"
                /\ clients'[verbaRef].torn = "live"
                /\ Resolves(verbaRef)
                /\ clients[verbaRef].flips = 0
                /\ clients'[verbaRef].flips = 1)]_vars

\* C3 witness: the provider became ready on its second identity while the
\* first, superseded one had already resolved.
C3_Witness ==
    /\ last.op = "ready"
    /\ last.client = verbaRef
    /\ verbaRef >= 2
    /\ isReady
    /\ clients[verbaRef].flips = 1
    /\ clients[verbaRef - 1].status = "resolved"
    /\ clients[verbaRef - 1].flips = 0

\* The current client's readiness has resolved.
CurrentResolved == HasInstance(verbaRef) /\ clients[verbaRef].status = "resolved"

\* C4 as stated: at any point before the current client's readiness has
\* resolved, t answers with the default string or the key and does not
\* consult the client.
C4_Original ==
    (last.op = "t" /\ phase # "unmounted" /\ ~CurrentResolved)
        => (/\ last.ret = (IF last.dv.tag = "str" THEN last.dv.val ELSE last.key)
            /\ last.calls = <<>>)

\* C4 amended: while no client instance is stored, t answers with the
\* default string or the key and consults no client; once the effect has
\* stored the client, t delegates to it, also before its readiness.
C4_FallbackWithoutInstance ==
    last.op = "t" =>
        IF HasInstance(verbaRef)
        THEN /\ last.calls = <<Call(verbaRef, "t", <<last.key, last.dv, last.params>>)>>
             /\ last.ret = last.arg
        ELSE /\ last.ret = (IF last.dv.tag = "str" THEN last.dv.val ELSE last.key)
             /\ last.calls = <<>>

\* C4 witness: t was called with a default string before the first effect.
C4_Witness ==
    /\ last.op = "t"
    /\ phase = "rendered"
    /\ ~HasInstance(verbaRef)
    /\ last.dv.tag = "str"
    /\ last.ret = "Hello"

\* C5: after unmount no step changes the provider's state or a client's
\* locale; a late readiness resolution and a setLocale through a retained
\* reference raise no error and call no client.
C5_NothingAfterUnmount ==
    [][phase = "unmounted"
         => (/\ isReady' = isReady
             /\ currentLocale' = currentLocale
             /\ verbaRef' = verbaRef
             /\ value' = value
             /\ Len(clients') = Len(clients)
             /\ \A c \in ClientIds : clients'[c].locale = clients[c].locale
             /\ last'.op \in {"ready", "setLocale"}
                  => (last'.err = "" /\ last'.calls = <<>>))]_vars

\* C5 witness: the client in flight at unmount resolved afterwards, and
\* setLocale has then been called.
C5_Witness ==
    /\ phase = "unmounted"
    /\ last.op = "setLocale"
    /\ \E c \in ClientIds :
          /\ clients[c].torn = "unmounted"
          /\ clients[c].cont = "skipped"
          /\ clients[c].locale # currentLocale

\* C6 as stated: after setLocale(x) the current locale is x.
C6_Original ==
    last.op = "setLocale" => (currentLocale = last.arg /\ value.locale = last.arg)

\* C6 amended: after setLocale(x) with a client instance stored the current
\* locale is x, whether or not that client's readiness has resolved; with
\* no instance stored the call changes nothing.
C6_SetLocaleMirrorsWithInstance ==
    last.op = "setLocale" =>
        IF HasInstance(verbaRef)
        THEN currentLocale = last.arg /\ value.locale = last.arg
        ELSE last.calls = <<>>

\* C6 witness: setLocale changed the locale while readiness was pending.
C6_Witness ==
    /\ last.op = "setLocale"
    /\ HasInstance(verbaRef)
    /\ clients[verbaRef].status = "pending"
    /\ last.arg # InitialLocale(props.locale)
    /\ currentLocale = last.arg

\* C7: useVerba throws the usage error outside a provider and returns the
\* provider's published value, without throwing, inside one.
C7_UseVerbaThrowsOutsideOnly ==
    last.op = "useVerba" =>
        IF last.arg = "out"
        THEN last.err = UsageError /\ ~last.ctx.present
        ELSE last.err = "" /\ last.ctx = value

\* C7 witness: useVerba was called outside a provider and threw.
C7_Witness ==
    last.op = "useVerba" /\ last.arg = "out" /\ last.err = UsageError

\* C8: the stored reference is empty or the client of the current
\* configuration identity; at most one client is live.
C8_AtMostOneLiveClient ==
    /\ HasInstance(verbaRef)
         => (/\ verbaRef = Len(clients)
             /\ phase = "mounted"
             /\ clients[verbaRef].torn = "live"
             /\ clients[verbaRef].config = props)
    /\ Cardinality({c \in ClientIds : clients[c].torn = "live"}) <= 1
    /\ \A c \in ClientIds : clients[c].torn = "live" => c = verbaRef

\* C8 witness: the provider was unmounted after a configuration change.
C8_Witness ==
    /\ phase = "unmounted"
    /\ Len(clients) >= 2
    /\ clients[1].torn = "superseded"
    /\ clients[2].torn = "unmounted"

\* C9: isReady is false after every run of the effect, and whenever it is
\* true the live client is one whose readiness has resolved.
C9_ReadyOnlyWithResolvedClient ==
    /\ last.op = "effect" => (~isReady /\ ~value.isReady)
    /\ phase = "rendered" => (~isReady /\ ~value.isReady)
    /\ (phase # "unmounted" /\ (isReady \/ value.isReady))
         => (/\ CurrentResolved
             /\ clients[verbaRef].cont = "applied")

\* C9 witness: the effect has just run again after the previous identity
\* had become ready.
C9_Witness ==
    /\ last.op = "effect"
    /\ Len(clients) >= 2
    /\ clients[Len(clients) - 1].cont = "applied"

\* C10: a failing readiness changes neither isReady, currentLocale nor the
\* published value, and while the failed (or still pending) client stays
\* the current one isReady stays false.
C10_FailedReadinessStaysNotReady ==
    [][/\ \A c \in ClientIds :
            Rejects(c) => (/\ isReady' = isReady
                           /\ currentLocale' = currentLocale
                           /\ value' = value)
       /\ (/\ HasInstance(verbaRef)
           /\ verbaRef' = verbaRef
           /\ clients[verbaRef].status # "resolved"
           /\ clients'[verbaRef].status # "resolved")
             => (~isReady' /\ ~value'.isReady)]_vars

\* C10 witness: the current client's readiness failed and setLocale was
\* called afterwards.
C10_Witness ==
    /\ phase = "mounted"
    /\ HasInstance(verbaRef)
    /\ clients[verbaRef].status = "rejected"
    /\ last.op = "setLocale"
    /\ ~isReady

\* C11: setLocale(x) with no client instance stored changes nothing and
\* calls no client; with an instance stored it calls that instance's
\* setLocale(x) exactly once and sets currentLocale to x.
C11_SetLocaleNoOpOrDelegatesOnce ==
    [][last'.op = "setLocale"
         => IF HasInstance(verbaRef)
            THEN /\ last'.calls = <<Call(verbaRef, "setLocale", last'.arg)>>
                 /\ currentLocale' = last'.arg
                 /\ clients'[verbaRef].locale = last'.arg
                 /\ \A c \in ClientIds \ {verbaRef} : clients'[c] = clients[c]
                 /\ UNCHANGED <<isReady, verbaRef, phase, props>>
            ELSE /\ last'.calls = <<>>
                 /\ UNCHANGED <<currentLocale, isReady, clients, verbaRef, value,
                                phase, props>>]_vars

\* C11 witness: setLocale was called after teardown with a locale other
\* than the current one, and the only client keeps its own locale.
C11_Witness ==
    /\ last.op = "setLocale"
    /\ phase = "unmounted"
    /\ ~HasInstance(verbaRef)
    /\ last.arg # currentLocale
    /\ \A c \in ClientIds : clients[c].locale # last.arg

\* C12: when the readiness of the current client resolves while the
\* provider is mounted, isReady becomes true and currentLocale becomes the
\* client's getLocale() of that moment, and both are published.
C12_ResolutionMakesReady ==
    [][(HasInstance(verbaRef) /\ verbaRef' = verbaRef /\ Resolves(verbaRef))
         => (/\ isReady'
             /\ currentLocale' = clients[verbaRef].locale
             /\ value'.isReady
             /\ value'.locale = clients[verbaRef].locale)]_vars

\* C12 witness: the current client has just resolved and the locale shown
\* changed to the client's.
C12_Witness ==
    /\ last.op = "ready"
    /\ phase = "mounted"
    /\ last.client = verbaRef
    /\ isReady
    /\ props.locale = NoLocale
    /\ currentLocale = "fr"
    /\ clients[verbaRef].locale = "fr"

\* C13: with a client instance stored, t passes its three arguments to the
\* instance's t and returns its answer; t changes no provider state.
C13_TDelegatesAndChangesNothing ==
    [][last'.op = "t"
         => (/\ UNCHANGED <<isReady, currentLocale, verbaRef, clients, value,
                            phase, props>>
             /\ HasInstance(verbaRef)
                  => (/\ last'.calls =
                           <<Call(verbaRef, "t", <<last'.key, last'.dv, last'.params>>)>>
                      /\ last'.ret = last'.arg))]_vars

\* C13 witness: t was given a default string and returned the client's
\* other answer.
C13_Witness ==
    /\ last.op = "t"
    /\ HasInstance(verbaRef)
    /\ last.dv = [tag |-> "str", val |-> "Hello"]
    /\ last.params = "name"
    /\ last.ret = "Bonjour"

\* C14: whenever the published isReady is true, the published locale is the
\* live client's getLocale().
C14_ReadyLocaleIsClients ==
    (phase # "unmounted" /\ (isReady \/ value.isReady))
        => (/\ HasInstance(verbaRef)
            /\ currentLocale = clients[verbaRef].locale
            /\ value.locale = clients[verbaRef].locale)

\* C14 witness: the client was built with the locale override "fr",
\* setLocale("en") was called before its readiness, and readiness has just
\* resolved.
C14_Witness ==
    /\ last.op = "ready"
    /\ last.client = verbaRef
    /\ isReady
    /\ props.locale = "fr"
    /\ currentLocale = "en"

\* C15: currentLocale starts as the locale prop, or "en" without one, and a
\* run of the effect leaves it as it was.
C15_LocaleSurvivesConfigChange ==
    /\ currentLocale = (IF props.locale = NoLocale THEN "en" ELSE props.locale)
    /\ [][last'.op = "effect"
            => (currentLocale' = currentLocale /\ value'.locale = value.locale)]_vars

\* C15 witness: the configuration changed to one with the locale prop "fr"
\* while the current locale was, and still is, "en".
C15_Witness ==
    /\ last.op = "effect"
    /\ Len(clients) >= 2
    /\ props.locale = "fr"
    /\ currentLocale = "en"
    /\ value.locale = "en"

====
